---- MODULE Spec2Model ----
(***************************************************************************)
(* Keithley Mini (2450 + 6487): the Runner worker thread (runner.py), the  *)
(* instrument wrappers it drives (instruments/*.py) and the run control of *)
(* MainWindow (ui/main_window.py).                                         *)
(*                                                                         *)
(* Values entered in the spin boxes are modelled exactly, as integers in   *)
(* units of 1e-12 (the sweep loop's tolerance): start and stop lie on the  *)
(* 1e-6 grid of their spin boxes, step on the 1e-12 grid of its own.       *)
(* Time is counted in ticks: one dwell or one sample period is one tick.   *)
(***************************************************************************)
EXTENDS Integers, Sequences, FiniteSets, TLC

\* ---------------------------------------------------------------- bounds
\* Runs started during one session of the window.
MaxRuns == 2
\* Characters of a READ? reply handed to the scripts' parsers.
MaxReply == 4
\* Rows one run may record (sweep tables longer than this are not started;
\* an until-Stop hold pauses at this many rows until Stop is requested).
MaxPoints == 2
\* Instrument or file calls of one run that raise where the exception
\* matters: it propagates, or it is dropped during the shutdown.
MaxFaults == 1

\* ------------------------------------------------------ program constants
\* runner.py:94  the 1e-12 slack of the sweep loop condition (the unit).
Tol == 1
\* main_window.py:78  start/stop spin boxes have 6 decimals: 1e-6 = 10^6 units.
Grid == 1000000

Instruments == {"2450", "6487"}
AllModes == {"IV_SWEEP", "VI_SWEEP", "HOLD_V", "HOLD_I"}
SweepModes == {"IV_SWEEP", "VI_SWEEP"}
HoldModes == {"HOLD_V", "HOLD_I"}

RunIds == 1..MaxRuns

\* Values the user enters: start/stop on the 1e-6 grid, step >= 1e-12
\* (step_edit.setRange(1e-12, 1e6)), hold duration >= 0 in ticks.
StartStopValues == {-Grid, 0}
StepValues == {Tol, Grid, 2 * Grid}
DurationValues == {0, MaxPoints}
\* Readings a READ? reply parses to.
Readings == {5}

VARIABLES
  runner,        \* MainWindow.runner: 0 for None, else the Runner's id
  runners,       \* the Runner objects: id -> thread state (pc "absent": none)
  nruns,         \* Runners created so far
  sigq,          \* queued signals from worker threads to the UI thread
  rows,          \* MainWindow.rows
  table,         \* MainWindow.table: its rows
  xy_data,       \* MainWindow.x_data / y_data, pairwise
  status,        \* MainWindow.status text (by kind)
  run_btn,       \* run_btn.isEnabled()
  stop_btn,      \* stop_btn.isEnabled()
  inst_combo,    \* inst_combo.currentText()
  mode_combo,    \* mode_combo.currentText()
  mode_enabled,  \* the enabled items of mode_combo
  last_call,     \* how the latest start_run call ended (history)
  form,          \* comp_edit, resource_combo; the mode before the latest
                 \* instrument change (history)
  rng,           \* the 6487 source range computation taken on its own
  parse,         \* a READ? reply and what the scripts' parsers make of it
  voltages,      \* the scripts' sweep constants and the tables built from them
  accum,         \* the sweep loop's accumulator v in double precision
  syst_err,      \* a SYST:ERR? reply and what its two readers make of it
  script         \* a standalone script: where it is, what it has sent

vars == <<runner, runners, nruns, sigq, rows, table, xy_data, status,
          run_btn, stop_btn, inst_combo, mode_combo, mode_enabled, last_call,
          form, rng, parse, voltages, accum, syst_err,
          script>>

\* The variables of the computations taken on their own: the window and its
\* Runner leave them alone.
calcVars == <<rng, parse, voltages, accum, syst_err, script>>
NoCalc == "none"

uiVars == <<runner, nruns, rows, table, xy_data, status, run_btn, stop_btn,
            inst_combo, mode_combo, mode_enabled, last_call, form>>

\* comp_edit, in units of 1e-12 A: its value at construction
\* (main_window.py:91) and the least the 6487 is left with (main_window.py:241).
DefaultCompliance == 25 * Grid
MinCompliance6487 == Grid
\* main_window.py:249
PreferredResource(inst) ==
  IF inst = "2450" THEN "GPIB0::13::INSTR" ELSE "GPIB0::22::INSTR"

\* --------------------------------------------------------------- helpers
Abs(x) == IF x < 0 THEN -x ELSE x
Max(a, b) == IF a >= b THEN a ELSE b

\* One command issued to the instrument (or a sleep, or a CSV row written):
\* where in run() it was issued, the SCPI header, its numeric argument.
Cmd(at, cmd, val) == [at |-> at, cmd |-> cmd, val |-> val]

\* RunConfig, as start_run fills it.
RunConfig(inst, mode, start, stop, step, duration_s, source_range_v) ==
  [instrument |-> inst, mode |-> mode, start |-> start, stop |-> stop,
   step |-> step, dwell_s |-> 1, duration_s |-> duration_s,
   sample_period_s |-> 1, source_range_v |-> source_range_v]

NoConfig == RunConfig("2450", "IV_SWEEP", 0, 0, 0, 0, 0)

\* A Runner that does not exist.
Absent ==
  [pc |-> "absent", cfg |-> NoConfig, stopFlag |-> FALSE, exc |-> FALSE,
   inst |-> "None", v |-> 0, step |-> 0, t_end |-> 0, clock |-> 0,
   meas |-> 0, csv |-> <<>>, flushed |-> 0, emitted |-> <<>>, log |-> <<>>,
   faults |-> 0, entered |-> FALSE, bodyErr |-> FALSE, shutFaults |-> {},
   finished |-> <<>>,
   stopAt |-> <<>>]

\* Runner.__init__
NewRunner(cfg) == [Absent EXCEPT !.pc = "start", !.cfg = cfg]

\* ------------------------------------------------- runner.py: pure parts
\* The signed step of a sweep (runner.py:93, 103, 120).
SignedStep(cfg) ==
  IF cfg.stop >= cfg.start THEN cfg.step ELSE -Abs(cfg.step)

\* A sweep loop whose tolerance is a whole grid step.
LoopCond_wide(v, step, cfg) ==
  IF step > 0 THEN v <= cfg.stop + Grid ELSE v >= cfg.stop - Grid

\* The sweep loop's condition (runner.py:94, 104, 121).
LoopCond(v, step, cfg) ==
  IF step > 0 THEN v <= cfg.stop + Tol ELSE v >= cfg.stop - Tol

\* A worker that never looks at the stop flag.
StopSeen_never(R) == FALSE

\* The stop check at the top of each sweep iteration (runner.py:95, 105, 122)
\* and in the hold loops' conditions (runner.py:139, 144, 156, 161).
StopSeen(R) == R.stopFlag

\* A hold loop that is always timed, duration_s <= 0 included.
HoldCond_timed(R) == R.clock < R.t_end /\ ~StopSeen(R)

\* The hold loops' condition (runner.py:138-163).
HoldCond(R) ==
  IF R.cfg.duration_s <= 0
    THEN ~StopSeen(R)
    ELSE R.clock < R.t_end /\ ~StopSeen(R)

\* Rows a sweep records when nothing stops it: the values start + k*step
\* that pass LoopCond.
NPoints(start, stop, step) == (Abs(stop - start) + Tol) \div step + 1

\* The 6487 source range, in volts (runner.py:54-61). source_range_v is in
\* volts; start and stop are in units of 1e-12 V, so 50 V is 50 * Grid * Grid
\* units: the comparison is made in units of 1e-6 V, rounding up.
CeilMicro(x) == (x + Grid - 1) \div Grid
v_range(cfg) ==
  IF cfg.source_range_v > 0
    THEN cfg.source_range_v
    ELSE LET max_v == IF cfg.mode \in {"HOLD_V"}
                        THEN Abs(cfg.start)
                        ELSE Max(Abs(cfg.start), Abs(cfg.stop))
         IN  IF CeilMicro(max_v) <= 50 * Grid THEN 50 ELSE 500

\* ------------------------------------------- instruments: command lists
\* KeithleyBase / Keithley2450 / Keithley6487 methods as the commands they
\* write, in order, tagged with the place of run() that calls them.
reset(at) == <<Cmd(at, "*RST", 0), Cmd(at, "*CLS", 0)>>

output_on(inst, at) ==
  <<Cmd(at, IF inst = "2450" THEN "OUTP ON" ELSE "SOUR:VOLT:STAT ON", 0)>>

output_off(inst, at) ==
  <<Cmd(at, IF inst = "2450" THEN "OUTP OFF" ELSE "SOUR:VOLT:STAT OFF", 0)>>

set_nplc_current(at) == <<Cmd(at, "SENS:CURR:NPLC", 0)>>

set_nplc_voltage(at) == <<Cmd(at, "SENS:VOLT:NPLC", 0)>>

source_voltage_measure_current(at, v) ==
  <<Cmd(at, "SOUR:FUNC VOLT", 0), Cmd(at, "SOUR:VOLT", v),
    Cmd(at, "SENS:CURR:PROT", 0), Cmd(at, "SENS:FUNC CURR", 0),
    Cmd(at, "SENS:CURR:RANG:AUTO", 0)>>

source_current_measure_voltage(at, i) ==
  <<Cmd(at, "SOUR:FUNC CURR", 0), Cmd(at, "SOUR:CURR", i),
    Cmd(at, "SENS:VOLT:PROT", 0), Cmd(at, "SENS:FUNC VOLT", 0),
    Cmd(at, "SENS:VOLT:RANG:AUTO", 0)>>

source_voltage(at, v) == <<Cmd(at, "SOUR:VOLT", v)>>

\* KeithleyBase.shutdown_safe
shutdown_safe(inst, at) == output_off(inst, at)

\* SYST:ERR? replies, as character sequences: no error in the two forms the
\* instruments use, an error, and the empty reply.
ErrReplies ==
  { <<"0", ",", "N">>, <<"+", "0", ",", "N">>, <<"-", "1", "1", "3">>, <<>> }

StartsWith(s, p) == Len(s) >= Len(p) /\ SubSeq(s, 1, Len(p)) = p

\* Keithley6487.check_error: raises iff the reply is non-empty and does not
\* start with "0". A failed query counts as the empty reply (get_error).
check_error_raises(err) == err /= <<>> /\ ~StartsWith(err, <<"0">>)

\* The outcomes of issuing a list of commands: all return, or, when a fault
\* may still be injected, the k-th is issued and raises after the first k-1
\* returned. time.sleep never raises.
Outcomes(cmds, mayFail) ==
  {[ev |-> cmds, ok |-> TRUE]} \cup
  (IF mayFail
     THEN {[ev |-> SubSeq(cmds, 1, k), ok |-> FALSE] :
             k \in {j \in 1..Len(cmds) : cmds[j].cmd /= "sleep"}}
     ELSE {})

\* A 6487 whose mode entries are all left enabled.
EnabledModes_all(inst) == AllModes

\* The mode items on_instrument_changed leaves enabled.
EnabledModes(inst) ==
  IF inst = "6487" THEN AllModes \ {"VI_SWEEP", "HOLD_I"} ELSE AllModes

\* The window once constructed, with the instrument and the mode the user
\* has selected for the session (any enabled pair: see on_instrument_changed).
WindowInit ==
  /\ runner = 0
  /\ runners = [r \in RunIds |-> Absent]
  /\ nruns = 0
  /\ sigq = <<>>
  /\ rows = <<>>
  /\ table = <<>>
  /\ xy_data = <<>>
  /\ status = "Ready."
  /\ run_btn = TRUE
  /\ stop_btn = FALSE
  /\ inst_combo \in Instruments
  /\ mode_enabled = EnabledModes(inst_combo)
  /\ mode_combo \in mode_enabled
  /\ last_call = "none"
  /\ form = [comp_edit |-> DefaultCompliance,
             resource |-> PreferredResource(inst_combo), was |-> "none"]

Init ==
  WindowInit /\ rng = NoCalc /\ parse = NoCalc /\ voltages = NoCalc /\ accum = NoCalc
    /\ syst_err = NoCalc /\ script = NoCalc

\* ------------------------------------------------------ Runner.run (worker)
PreamblePcs == {"start", "connect", "reset", "cfg_a", "cfg_auto", "cfg_b",
                "cfg_read", "cfg_err"}
BodyPcs == {"body", "setup", "setup_err", "enter", "loop", "src", "src_err",
            "sleep", "read", "write", "flush", "emit", "hold"}
LoopPcs == {"loop", "src", "src_err", "sleep", "read", "write", "flush",
            "emit", "hold"}
FinallyPcs == {"fin_zero", "fin_off", "close_off", "close_h"}
\* Calls whose exception is caught and dropped where it is raised
\* (keithley6487.py:68-71, 78-81; runner.py:170-174; base.py:15-22). In the
\* configuration the run goes on as if the call had returned; in the
\* shutdown the fault is remembered in shutFaults.
SwallowPcs == {"cfg_auto", "cfg_read", "fin_zero", "close_off", "close_h"}

\* Where the finally block of run() starts (runner.py:167-171).
FinallyPc(cfg) == IF cfg.instrument = "6487" THEN "fin_zero" ELSE "fin_off"

\* A finally clause whose shutdown_safe() is not itself followed by a
\* finally: an exception it raises goes past inst.close().
RaiseTo_noclose(R) ==
  IF R.pc \in PreamblePcs THEN "finish"
  ELSE IF R.pc \in BodyPcs THEN FinallyPc(R.cfg)
  ELSE "finish"

\* Where control goes when an exception leaves the statement at pc: out of
\* the preamble to the except clause (runner.py:180), out of the measurement
\* block to its finally (runner.py:167), out of shutdown_safe to the inner
\* finally (runner.py:176).
RaiseTo(R) ==
  IF R.pc \in PreamblePcs THEN "finish"
  ELSE IF R.pc \in BodyPcs THEN FinallyPc(R.cfg)
  ELSE IF R.pc = "fin_off" THEN "close_off"
  ELSE "finish"

Raise(R) ==
  [R EXCEPT !.pc = RaiseTo(R), !.exc = TRUE, !.faults = @ + 1,
            !.bodyErr = @ \/ R.pc \in BodyPcs,
            !.shutFaults = IF R.pc \in FinallyPcs THEN @ \cup {R.pc} ELSE @]

\* An exception caught and dropped where it is raised.
Swallow(R, next) ==
  IF R.pc \in FinallyPcs
    THEN [R EXCEPT !.pc = next, !.faults = @ + 1, !.shutFaults = @ \cup {R.pc}]
    ELSE [R EXCEPT !.pc = next]

\* The commands the statement at pc issues.
IssueCmds(R) ==
  LET c == R.cfg
      i == R.cfg.instrument
  IN  CASE R.pc = "reset" -> reset("reset")
        [] R.pc = "cfg_a" ->
             <<Cmd("configure", "SYST:ZCH OFF", 0),
               Cmd("configure", "SOUR:VOLT:RANG", v_range(c)),
               Cmd("configure", "SOUR:VOLT:ILIM", 0)>>
        [] R.pc = "cfg_auto" -> <<Cmd("configure", "SENS:CURR:RANG:AUTO ON", 0)>>
        [] R.pc = "cfg_b" ->
             set_nplc_current("configure") \o source_voltage("configure", 0)
               \o output_on(i, "configure") \o <<Cmd("configure", "sleep", 0)>>
        [] R.pc = "cfg_read" -> <<Cmd("configure", "READ?", 0)>>
        [] R.pc = "setup" ->
             IF i = "2450"
               THEN IF c.mode = "IV_SWEEP"
                      THEN set_nplc_current("setup")
                             \o source_voltage_measure_current("setup", 0)
                             \o output_on(i, "setup")
                    ELSE IF c.mode = "VI_SWEEP"
                      THEN set_nplc_voltage("setup")
                             \o source_current_measure_voltage("setup", 0)
                             \o output_on(i, "setup")
                    ELSE IF c.mode = "HOLD_V"
                      THEN set_nplc_current("setup")
                             \o source_voltage_measure_current("setup", c.start)
                             \o output_on(i, "setup")
                    ELSE set_nplc_voltage("setup")
                             \o source_current_measure_voltage("setup", c.start)
                             \o output_on(i, "setup")
               ELSE source_voltage("setup", c.start)
        [] R.pc = "src" ->
             IF i = "2450"
               THEN IF c.mode = "IV_SWEEP"
                      THEN source_voltage_measure_current("loop", R.v)
                      ELSE source_current_measure_voltage("loop", R.v)
               ELSE source_voltage("loop", R.v)
        [] R.pc = "fin_zero" ->
             source_voltage("finally", 0) \o <<Cmd("finally", "sleep", 0)>>
        [] R.pc = "fin_off" -> shutdown_safe(i, "shutdown_safe")
        [] R.pc = "close_off" -> output_off(i, "close")
        [] R.pc = "close_h" -> <<Cmd("close", "close", 0)>>
        [] OTHER -> <<>>

\* A 6487 start-up that goes from the reset straight to the source level
\* and the output on, leaving out the zero check, the range and the limit.
IssueNext_early(R) ==
  LET i == R.cfg.instrument
  IN  CASE R.pc = "reset" -> IF i = "6487" THEN "cfg_b" ELSE "body"
        [] R.pc = "cfg_b" -> "cfg_read"
        [] R.pc = "cfg_read" -> "cfg_err"
        [] R.pc = "setup" -> IF i = "6487" THEN "setup_err" ELSE "enter"
        [] R.pc = "src" -> IF i = "6487" THEN "src_err" ELSE "sleep"
        [] R.pc = "fin_zero" -> "fin_off"
        [] R.pc = "fin_off" -> "close_off"
        [] R.pc = "close_off" -> "close_h"
        [] R.pc = "close_h" -> "finish"
        [] OTHER -> "done"

IssuePcs == {"reset", "cfg_a", "cfg_auto", "cfg_b", "cfg_read", "setup",
             "src", "fin_zero", "fin_off", "close_off", "close_h"}

\* The statement after the one at pc.
IssueNext(R) ==
  LET i == R.cfg.instrument
  IN  CASE R.pc = "reset" -> IF i = "6487" THEN "cfg_a" ELSE "body"
        [] R.pc = "cfg_a" -> "cfg_auto"
        [] R.pc = "cfg_auto" -> "cfg_b"
        [] R.pc = "cfg_b" -> "cfg_read"
        [] R.pc = "cfg_read" -> "cfg_err"
        [] R.pc = "setup" -> IF i = "6487" THEN "setup_err" ELSE "enter"
        [] R.pc = "src" -> IF i = "6487" THEN "src_err" ELSE "sleep"
        [] R.pc = "fin_zero" -> "fin_off"
        [] R.pc = "fin_off" -> "close_off"
        [] R.pc = "close_off" -> "close_h"
        [] R.pc = "close_h" -> "finish"
        [] OTHER -> "done"

\* KeithleyBase.close ends with self.inst = None (base.py:23).
AfterClose(R) == IF R.pc = "close_h" THEN "None" ELSE R.inst

\* A call may raise while the run's faults are below the bound; a call whose
\* exception is dropped during the configuration may always raise.
MayFail(R) == R.faults < MaxFaults \/ R.pc \in SwallowPcs \ FinallyPcs

\* run(), lines 30-46: the run folder, run_config.json, data.csv and its
\* header. An OSError leaves through the except clause.
W_open_files(r) ==
  LET R == runners[r]
  IN  /\ R.pc = "start"
      /\ \/ runners' = [runners EXCEPT ![r] = [R EXCEPT !.pc = "connect"]]
         \/ /\ MayFail(R)
            /\ runners' = [runners EXCEPT ![r] = Raise(R)]
      /\ UNCHANGED <<sigq, uiVars, calcVars>>

\* run(), lines 48-49: inst.connect() opens the resource and queries *IDN?.
W_connect(r) ==
  LET R == runners[r]
      idn == Cmd("connect", "*IDN?", 0)
  IN  /\ R.pc = "connect"
      /\ \/ runners' = [runners EXCEPT ![r] =
                          [R EXCEPT !.pc = "reset", !.inst = "open",
                                    !.log = Append(@, idn)]]
         \/ /\ MayFail(R)
            /\ \/ runners' = [runners EXCEPT ![r] = Raise(R)]
               \/ runners' = [runners EXCEPT ![r] =
                                Raise([R EXCEPT !.inst = "open",
                                                !.log = Append(@, idn)])]
      /\ UNCHANGED <<sigq, uiVars, calcVars>>

\* Any statement of run() that only writes commands to the instrument.
W_issue(r) ==
  LET R == runners[r]
  IN  /\ R.pc \in IssuePcs
      /\ \E o \in Outcomes(IssueCmds(R), MayFail(R)) :
           LET R1 == [R EXCEPT !.log = @ \o o.ev, !.inst = AfterClose(R)]
           IN  runners' = [runners EXCEPT ![r] =
                 IF o.ok THEN [R1 EXCEPT !.pc = IssueNext(R)]
                 ELSE IF R.pc \in SwallowPcs THEN Swallow(R1, IssueNext(R))
                 ELSE Raise(R1)]
      /\ UNCHANGED <<sigq, uiVars, calcVars>>

CheckErrorPcs == {"cfg_err", "setup_err", "src_err"}

\* inst.check_error(...) (keithley6487.py:40-49; runner.py:108, 136 and
\* keithley6487.py:83): SYST:ERR? is queried; a failed query reads as the
\* empty reply (get_error), which is one of ErrReplies.
W_check_error(r) ==
  LET R == runners[r]
      q == Cmd(IF R.pc = "cfg_err" THEN "configure"
               ELSE IF R.pc = "setup_err" THEN "setup" ELSE "loop",
               "SYST:ERR?", 0)
      next == IF R.pc = "cfg_err" THEN "body"
              ELSE IF R.pc = "setup_err" THEN "enter" ELSE "sleep"
  IN  /\ R.pc \in CheckErrorPcs
      /\ \E err \in ErrReplies :
           LET R1 == [R EXCEPT !.log = Append(@, q)]
           IN  runners' = [runners EXCEPT ![r] =
                 IF check_error_raises(err)
                   THEN Raise(R1) ELSE [R1 EXCEPT !.pc = next]]
      /\ UNCHANGED <<sigq, uiVars, calcVars>>

\* run(), lines 87-165: the dispatch on cfg.mode.
W_body(r) ==
  LET R == runners[r]
      c == R.cfg
      E == [R EXCEPT !.entered = TRUE]
  IN  /\ R.pc = "body"
      /\ runners' = [runners EXCEPT ![r] =
           IF c.mode \in {"VI_SWEEP", "HOLD_I"} /\ c.instrument /= "2450"
             THEN Raise(E)
           ELSE IF c.mode = "IV_SWEEP" /\ c.instrument = "6487"
             THEN [E EXCEPT !.pc = "enter"]
           ELSE [E EXCEPT !.pc = "setup"]]
      /\ UNCHANGED <<sigq, uiVars, calcVars>>

\* The loop variables: v and step of a sweep (runner.py:92-93), t_end of a
\* timed hold (runner.py:143).
W_enter(r) ==
  LET R == runners[r]
      c == R.cfg
  IN  /\ R.pc = "enter"
      /\ runners' = [runners EXCEPT ![r] =
           IF c.mode \in SweepModes
             THEN [R EXCEPT !.pc = "loop", !.v = c.start, !.step = SignedStep(c)]
             ELSE [R EXCEPT !.pc = "hold", !.t_end = R.clock + c.duration_s]]
      /\ UNCHANGED <<sigq, uiVars, calcVars>>

\* One evaluation of the sweep loop's while condition and stop check.
W_loop(r) ==
  LET R == runners[r]
  IN  /\ R.pc = "loop"
      /\ runners' = [runners EXCEPT ![r] =
           IF LoopCond(R.v, R.step, R.cfg) /\ ~StopSeen(R)
             THEN [R EXCEPT !.pc = "src"]
             ELSE [R EXCEPT !.pc = FinallyPc(R.cfg)]]
      /\ UNCHANGED <<sigq, uiVars, calcVars>>

\* One evaluation of a hold loop's while condition.
W_hold(r) ==
  LET R == runners[r]
  IN  /\ R.pc = "hold"
      /\ Len(R.csv) < MaxPoints \/ ~HoldCond(R)
      /\ runners' = [runners EXCEPT ![r] =
           IF HoldCond(R)
             THEN [R EXCEPT !.pc = "sleep"]
             ELSE [R EXCEPT !.pc = FinallyPc(R.cfg)]]
      /\ UNCHANGED <<sigq, uiVars, calcVars>>

\* time.sleep(dwell_s) / time.sleep(sample_period_s)
W_sleep(r) ==
  LET R == runners[r]
      d == IF R.cfg.mode \in SweepModes
             THEN R.cfg.dwell_s ELSE R.cfg.sample_period_s
  IN  /\ R.pc = "sleep"
      /\ runners' = [runners EXCEPT ![r] =
           [R EXCEPT !.pc = "read", !.clock = @ + d,
                     !.log = Append(@, Cmd("loop", "sleep", d))]]
      /\ UNCHANGED <<sigq, uiVars, calcVars>>

\* A hold that records the sweep variable.
SetValue_v(R) == R.v

\* inst.measure_current() / inst.measure_voltage(): READ?, then the reply is
\* parsed; the query may raise, and so may the parse (ValueError): either
\* way READ? was issued and no value comes back.
W_read(r) ==
  LET R == runners[r]
      q == Cmd("loop", "READ?", 0)
  IN  /\ R.pc = "read"
      /\ \/ \E m \in Readings :
              runners' = [runners EXCEPT ![r] =
                [R EXCEPT !.pc = "write", !.meas = m, !.log = Append(@, q)]]
         \/ /\ MayFail(R)
            /\ runners' = [runners EXCEPT ![r] =
                 Raise([R EXCEPT !.log = Append(@, q)])]
      /\ UNCHANGED <<sigq, uiVars, calcVars>>

\* A sweep that records the value it will apply next.
SetValue_next(R) ==
  IF R.cfg.mode \in SweepModes THEN R.v + R.step ELSE R.cfg.start

\* The set value passed to emit_and_write: v in a sweep, cfg.start in a hold.
SetValue(R) == IF R.cfg.mode \in SweepModes THEN R.v ELSE R.cfg.start

\* The row emit_and_write builds (runner.py:73-81).
Row(R) ==
  [elapsed_s |-> R.clock, mode |-> R.cfg.mode, set_value |-> SetValue(R),
   measured_value |-> R.meas]

\* emit_and_write: writer.writerow(row)
W_write(r) ==
  LET R == runners[r]
  IN  /\ R.pc = "write"
      /\ runners' = [runners EXCEPT ![r] =
           [R EXCEPT !.pc = "flush", !.csv = Append(@, Row(R)),
                     !.log = Append(@, Cmd("loop", "row", SetValue(R)))]]
      /\ UNCHANGED <<sigq, uiVars, calcVars>>

\* An emit_and_write without its flush.
W_flush_skip(r) ==
  /\ runners[r].pc = "flush"
  /\ runners' = [runners EXCEPT ![r].pc = "emit"]
  /\ UNCHANGED <<sigq, uiVars, calcVars>>

\* emit_and_write: fcsv.flush()
W_flush(r) ==
  LET R == runners[r]
  IN  /\ R.pc = "flush"
      /\ runners' = [runners EXCEPT ![r] =
           [R EXCEPT !.pc = "emit", !.flushed = Len(R.csv)]]
      /\ UNCHANGED <<sigq, uiVars, calcVars>>

\* emit_and_write: self.point_acquired.emit(row), then the end of the loop
\* body (v += step in a sweep).
W_emit(r) ==
  LET R == runners[r]
      row == R.csv[Len(R.csv)]
  IN  /\ R.pc = "emit"
      /\ sigq' = Append(sigq, [sig |-> "point_acquired", from |-> r, row |-> row])
      /\ runners' = [runners EXCEPT ![r] =
           IF R.cfg.mode \in SweepModes
             THEN [R EXCEPT !.pc = "loop", !.v = R.v + R.step,
                            !.emitted = Append(@, row)]
             ELSE [R EXCEPT !.pc = "hold", !.emitted = Append(@, row)]]
      /\ UNCHANGED <<uiVars, calcVars>>

\* A run that reports finished_ok whatever happened.
W_finish_ok(r) ==
  LET R == runners[r]
  IN  /\ R.pc = "finish"
      /\ sigq' = Append(sigq, [sig |-> "finished_ok", from |-> r,
                               row |-> Row(Absent)])
      /\ runners' = [runners EXCEPT ![r] =
           [R EXCEPT !.pc = "done", !.finished = Append(@, "finished_ok")]]
      /\ UNCHANGED <<uiVars, calcVars>>

\* run(), lines 179-181: finished_ok, or finished_err from the except clause.
W_finish(r) ==
  LET R == runners[r]
      sig == IF R.exc THEN "finished_err" ELSE "finished_ok"
  IN  /\ R.pc = "finish"
      /\ sigq' = Append(sigq, [sig |-> sig, from |-> r, row |-> Row(Absent)])
      /\ runners' = [runners EXCEPT ![r] =
           [R EXCEPT !.pc = "done", !.finished = Append(@, sig)]]
      /\ UNCHANGED <<uiVars, calcVars>>

Worker(r) ==
  \/ W_open_files(r)
  \/ W_connect(r)
  \/ W_issue(r)
  \/ W_check_error(r)
  \/ W_body(r)
  \/ W_enter(r)
  \/ W_loop(r)
  \/ W_hold(r)
  \/ W_sleep(r)
  \/ W_read(r)
  \/ W_write(r)
  \/ W_flush(r)
  \/ W_emit(r)
  \/ W_finish(r)

\* ------------------------------------------------------------ MainWindow
\* get_xy_from_row with the axes set_plot_defaults_for_mode selects for the
\* mode (main_window.py:300-334), linear scale.
get_xy_from_row(row, mode) ==
  <<IF mode \in HoldModes THEN row.elapsed_s ELSE row.set_value,
    row.measured_value>>

\* replot_from_rows (main_window.py:337-357), linear scale.
replot_from_rows(rs, mode) ==
  [k \in 1..Len(rs) |-> get_xy_from_row(rs[k], mode)]

\* The guard of start_run on the sweep step (main_window.py:384).
StepRejected(mode, step) == mode \in SweepModes /\ step <= 0

\* A start_run without its first guard.
RunInProgress_never == FALSE

\* start_run's first guard (main_window.py:361).
RunInProgress == runner /= 0

\* MainWindow.start_run; start, stop, step and duration are the values of
\* the spin boxes. stop_edit is 0 in the hold modes (on_mode_changed).
start_run(start, stop, step, duration_s) ==
  LET inst == inst_combo
      mode == mode_combo
      cfg == RunConfig(inst, mode, start,
                       IF mode \in HoldModes THEN 0 ELSE stop,
                       step, duration_s, 0)
      id == nruns + 1
  IN  IF RunInProgress
        THEN /\ last_call' = "ignored"
             /\ UNCHANGED <<calcVars, form, runner, runners, nruns, sigq, rows, table, xy_data,
                            status, run_btn, stop_btn, inst_combo, mode_combo,
                            mode_enabled>>
      ELSE IF StepRejected(mode, cfg.step)
        THEN /\ status' = "Step must be > 0 for sweeps."
             /\ last_call' = "rejected"
             /\ UNCHANGED <<calcVars, form, runner, runners, nruns, sigq, rows, table, xy_data,
                            run_btn, stop_btn, inst_combo, mode_combo,
                            mode_enabled>>
      ELSE /\ nruns < MaxRuns
           /\ mode \in SweepModes => NPoints(cfg.start, cfg.stop, cfg.step) <= MaxPoints
           /\ table' = <<>>
           /\ rows' = <<>>
           /\ xy_data' = <<>>
           /\ status' = "Running"
           /\ runner' = id
           /\ nruns' = id
           /\ runners' = [r \in RunIds |->
                            IF r = id THEN NewRunner(cfg)
                            ELSE IF runners[r].pc = "absent" THEN Absent
                            ELSE runners[r]]
           /\ run_btn' = FALSE
           /\ stop_btn' = TRUE
           /\ last_call' = "started"
           /\ UNCHANGED <<calcVars, form, sigq, inst_combo, mode_combo, mode_enabled>>

\* Runner.stop (runner.py:25-26); stopAt remembers what the run had done
\* when the flag was first set (history).
stop(R) ==
  [R EXCEPT !.stopFlag = TRUE,
            !.stopAt = IF R.stopFlag THEN @
                       ELSE <<[rows |-> Len(R.csv),
                               inLoop |-> R.pc \in LoopPcs \cup FinallyPcs
                                            \cup {"finish", "done"}]>>]

\* MainWindow.stop_run
stop_run ==
  /\ runner /= 0
  /\ status' = "Stopping"
  /\ runners' = [runners EXCEPT ![runner] = stop(@)]
  /\ UNCHANGED <<calcVars, form, runner, nruns, sigq, rows, table, xy_data, run_btn, stop_btn,
                 inst_combo, mode_combo, mode_enabled, last_call>>

\* An on_point that fills the table but not the rows list.
on_point_table_only ==
  /\ sigq /= <<>>
  /\ Head(sigq).sig = "point_acquired"
  /\ table' = Append(table, Head(sigq).row)
  /\ sigq' = Tail(sigq)
  /\ UNCHANGED <<calcVars, form, runner, runners, nruns, rows, xy_data, status,
                 run_btn, stop_btn, inst_combo, mode_combo, mode_enabled,
                 last_call>>

\* MainWindow.on_point, delivered from the head of the signal queue.
on_point ==
  /\ sigq /= <<>>
  /\ Head(sigq).sig = "point_acquired"
  /\ table' = Append(table, Head(sigq).row)
  /\ rows' = Append(rows, Head(sigq).row)
  /\ xy_data' = Append(xy_data, get_xy_from_row(Head(sigq).row, mode_combo))
  /\ sigq' = Tail(sigq)
  /\ UNCHANGED <<calcVars, form, runner, runners, nruns, status, run_btn, stop_btn,
                 inst_combo, mode_combo, mode_enabled, last_call>>

\* A cleanup that re-enables Run but keeps the Runner.
cleanup_runner_keep ==
  /\ run_btn' = TRUE
  /\ stop_btn' = TRUE
  /\ UNCHANGED <<runner, runners>>

\* MainWindow.cleanup_runner; the Runner it let go of no longer exists, and
\* only whether it had been asked to stop is remembered until the next run
\* starts (history).
cleanup_runner ==
  /\ run_btn' = TRUE
  /\ stop_btn' = FALSE
  /\ runner' = 0
  /\ runners' = IF runner = 0 THEN runners
                ELSE [runners EXCEPT
                        ![runner] = [Absent EXCEPT !.stopFlag = runners[runner].stopFlag]]

\* MainWindow.on_done_ok
on_done_ok ==
  /\ sigq /= <<>>
  /\ Head(sigq).sig = "finished_ok"
  /\ status' = "Saved"
  /\ cleanup_runner
  /\ sigq' = Tail(sigq)
  /\ UNCHANGED <<calcVars, form, nruns, rows, table, xy_data, inst_combo, mode_combo,
                 mode_enabled, last_call>>

\* MainWindow.on_done_err
on_done_err ==
  /\ sigq /= <<>>
  /\ Head(sigq).sig = "finished_err"
  /\ status' = "ERROR"
  /\ cleanup_runner
  /\ sigq' = Tail(sigq)
  /\ UNCHANGED <<calcVars, form, nruns, rows, table, xy_data, inst_combo, mode_combo,
                 mode_enabled, last_call>>

\* MainWindow.on_instrument_changed, for the user picking another
\* instrument; a mode change it makes runs on_mode_changed, which replots.
on_instrument_changed(inst) ==
  LET mode == IF inst = "6487" /\ mode_combo \in {"VI_SWEEP", "HOLD_I"}
                THEN "IV_SWEEP" ELSE mode_combo
  IN  /\ inst /= inst_combo
      /\ inst_combo' = inst
      /\ mode_enabled' = EnabledModes(inst)
      /\ mode_combo' = mode
      /\ xy_data' = replot_from_rows(rows, mode)
      /\ form' = [form EXCEPT
           !.comp_edit = IF inst = "6487" /\ @ < MinCompliance6487
                           THEN DefaultCompliance ELSE @,
           !.resource = PreferredResource(inst),
           !.was = mode_combo]
      /\ UNCHANGED <<calcVars, runner, runners, nruns, sigq, rows, table, status,
                     run_btn, stop_btn, last_call>>

\* MainWindow.on_mode_changed, for the user picking another enabled mode.
on_mode_changed(mode) ==
  /\ mode \in mode_enabled
  /\ mode /= mode_combo
  /\ mode_combo' = mode
  /\ xy_data' = replot_from_rows(rows, mode)
  /\ UNCHANGED <<calcVars, form, runner, runners, nruns, sigq, rows, table, status, run_btn,
                 stop_btn, inst_combo, mode_enabled, last_call>>

\* The spin box values start_run is tried with: start, stop and step of a
\* sweep (the hold duration left at 0, its default), start and duration of a
\* hold (the step left at one grid step).
FormValues(mode) ==
  IF mode \in SweepModes
    THEN {<<a, b, s, 0>> : a \in StartStopValues, b \in StartStopValues,
                           s \in StepValues}
    ELSE {<<a, 0, Grid, d>> : a \in StartStopValues, d \in DurationValues}

Next ==
  \/ \E f \in FormValues(mode_combo) : start_run(f[1], f[2], f[3], f[4])
  \/ stop_run
  \/ on_point
  \/ on_done_ok
  \/ on_done_err
  \/ \E r \in RunIds : Worker(r)

Spec == Init /\ [][Next]_vars

\* The worker is a QThread of its own (runner.py:21): the operating system
\* keeps running it whatever the UI thread does.
FairSpec == Spec /\ WF_vars(\E r \in RunIds : Worker(r))

\* The UI thread runs Qt's event loop (app.exec): a signal queued for it is
\* delivered to its slot.
Deliver == on_point \/ on_done_ok \/ on_done_err
FairUiSpec == FairSpec /\ WF_vars(Deliver)

\* ================================================================ claims
\* The Runners that exist.
Live == {r \in RunIds : runners[r].pc /= "absent"}

\* The Runner that exists, if there is one (C1: there is at most one).
Cur == IF Live = {} THEN Absent ELSE runners[CHOOSE r \in Live : TRUE]

\* Events of a run's log.
IsSource(e) == e.cmd \in {"SOUR:VOLT", "SOUR:CURR"} /\ e.at \in {"setup", "loop"}
IsRow(e) == e.cmd = "row"
IsOutputOn(e) == e.cmd \in {"OUTP ON", "SOUR:VOLT:STAT ON"}
IsOutputOff(e) == e.cmd \in {"OUTP OFF", "SOUR:VOLT:STAT OFF"}
Count(log, P(_)) == Cardinality({k \in DOMAIN log : P(log[k])})

\* ---- C1 ----------------------------------------------------------------
\* C1: at most one Runner exists at any time, and a start_run call made
\* while a Runner exists changes nothing: no second Runner is created and the
\* table, the rows and the plot buffers of the run in progress are kept.
C1_SingleRunner ==
  [][ /\ Cardinality(Live') <= 1
      /\ (runner /= 0 /\ last_call' /= last_call) =>
           UNCHANGED <<runner, runners, nruns, sigq, rows, table, xy_data,
                       status, run_btn, stop_btn>> ]_vars

\* A start_run call was ignored during a run that has already shown a point.
C1_Witness ==
  /\ runner /= 0
  /\ runners[runner].pc /= "absent"
  /\ last_call = "ignored"
  /\ Len(rows) >= 1

\* ---- C2 ----------------------------------------------------------------
\* The index in the log of the n-th row written, 0 if there is none.
RowIndex(log, n) ==
  LET at == {k \in DOMAIN log :
               IsRow(log[k]) /\ Count(SubSeq(log, 1, k), IsRow) = n}
  IN  IF at = {} THEN 0 ELSE CHOOSE k \in at : TRUE

\* C2: once stop() has set the flag, in every mode, the worker records at
\* most one further point, applies no source value after that point (the
\* return to 0 V of the shutdown is not a source value of the run), and
\* records no point at all when the flag was set before it reached its
\* measurement loop.
C2_CooperativeStop ==
  \A r \in RunIds :
    LET R == runners[r]
        at == R.stopAt[1]
        further == RowIndex(R.log, at.rows + 1)
    IN  R.stopAt /= <<>> =>
          /\ Len(R.csv) <= at.rows + 1
          /\ further > 0 =>
               \A k \in DOMAIN R.log : k > further => ~IsSource(R.log[k])
          /\ ~at.inLoop => Len(R.csv) = 0

\* A run stopped in the middle of a point: it recorded that point and ended.
C2_Witness ==
  \E r \in RunIds :
    /\ runners[r].stopAt /= <<>>
    /\ runners[r].stopAt[1].inLoop
    /\ Len(runners[r].csv) = runners[r].stopAt[1].rows + 1
    /\ runners[r].pc = "done"

\* ---- C3 ----------------------------------------------------------------
\* C3: whenever a run has issued the output-on command (and the call has
\* returned: something was issued after it), it has issued the output-off
\* command after it by the time it emits finished_ok or finished_err.
C3_OutputOffBeforeFinish ==
  \A r \in RunIds :
    LET R == runners[r]
    IN  R.finished /= <<>> =>
          \A k \in DOMAIN R.log :
            (IsOutputOn(R.log[k]) /\ k < Len(R.log)) =>
              \E j \in DOMAIN R.log : j > k /\ IsOutputOff(R.log[j])

\* ---- C4 ----------------------------------------------------------------
\* A hold run with duration_s <= 0.
HoldUntilStop(R) ==
  R.pc /= "absent" /\ R.cfg.mode \in HoldModes /\ R.cfg.duration_s <= 0

\* C4: a HOLD_V or HOLD_I run with duration_s <= 0 leaves its loop only when
\* the stop flag is set or the instrument raised; while it loops it records
\* one point per sample period; at the first loop check after the flag was
\* set it leaves, and under fair scheduling of the worker it always gets there.
C4_HoldUntilStop ==
  /\ [][ \A r \in RunIds :
           LET R == runners[r]
               Rn == runners'[r]
           IN  HoldUntilStop(R) =>
                 /\ (R.pc \in LoopPcs /\ Rn.pc \notin LoopPcs) =>
                      (R.stopFlag \/ Rn.exc)
                 /\ (R.pc = "hold" /\ Rn.pc /= "hold" /\ R.stopFlag) =>
                      Rn.pc \in FinallyPcs
                 /\ (R.pc = "hold" /\ Rn.pc = "sleep") =>
                      /\ Len(R.csv) = Len(R.emitted)
                      /\ Count(R.log, LAMBDA e : e.at = "loop" /\ e.cmd = "sleep")
                           = Len(R.csv)
                      /\ \A k \in 2..Len(R.csv) :
                           R.csv[k].elapsed_s - R.csv[k - 1].elapsed_s
                             = R.cfg.sample_period_s ]_vars
  /\ (HoldUntilStop(Cur) /\ Cur.pc \in LoopPcs /\ Cur.stopFlag)
       ~> (Cur.pc \notin LoopPcs)

\* A hold with duration 0 that recorded MaxPoints points while the flag was
\* unset, was then stopped, and ended without an error.
C4_Witness ==
  \E r \in RunIds :
    /\ HoldUntilStop(runners[r])
    /\ runners[r].stopAt /= <<>>
    /\ runners[r].stopAt[1].rows = MaxPoints
    /\ runners[r].pc = "done"
    /\ ~runners[r].exc

\* ---- C5 ----------------------------------------------------------------
\* What a sweep point is made of: the source value applied, the dwell, the
\* measurement, the row.
IsPointStep(e) ==
  e.at = "loop" /\ e.cmd \in {"SOUR:VOLT", "SOUR:CURR", "sleep", "READ?", "row"}
PointOrder == <<"source", "sleep", "READ?", "row">>
Kind(e) == IF e.cmd \in {"SOUR:VOLT", "SOUR:CURR"} THEN "source" ELSE e.cmd

\* C5: in a sweep run the points follow one another as apply the source
\* value, wait the dwell time, measure once, record one row whose set_value
\* is the value applied; no source value is applied before the row of the
\* previous one is recorded.
C5_SweepPointOrder ==
  \A r \in RunIds :
    LET R == runners[r]
        S == SelectSeq(R.log, IsPointStep)
    IN  (R.pc /= "absent" /\ R.cfg.mode \in SweepModes) =>
          /\ \A i \in DOMAIN S :
               /\ Kind(S[i]) = PointOrder[((i - 1) % 4) + 1]
               /\ S[i].cmd = "sleep" => S[i].val = R.cfg.dwell_s
               /\ S[i].cmd = "row" => S[i].val = S[i - 3].val
          /\ Count(S, IsRow) = Len(R.csv)
          /\ \A n \in DOMAIN R.csv : R.csv[n].set_value = S[4 * n - 3].val

\* A sweep that ended with two points of different set values.
C5_Witness ==
  \E r \in RunIds :
    /\ runners[r].cfg.mode \in SweepModes
    /\ runners[r].pc = "done"
    /\ Len(runners[r].csv) = 2
    /\ runners[r].csv[1].set_value /= runners[r].csv[2].set_value

\* ---- C6 ----------------------------------------------------------------
\* The set values a run applied in its loop, in order.
SetValues(R) ==
  LET S == SelectSeq(R.log, LAMBDA e : e.at = "loop" /\ IsSource(e))
  IN  [i \in DOMAIN S |-> S[i].val]
IsSweep(R) == R.pc /= "absent" /\ R.cfg.mode \in SweepModes /\ R.cfg.step > 0
Monotonic(R) ==
  LET T == SetValues(R)
  IN  /\ T /= <<>> => T[1] = R.cfg.start
      /\ \A i \in 2..Len(T) :
           T[i] - T[i - 1] =
             IF R.cfg.stop >= R.cfg.start THEN R.cfg.step ELSE -R.cfg.step
Beyond(x, cfg, tol) ==
  IF cfg.stop >= cfg.start THEN x > cfg.stop + tol ELSE x < cfg.stop - tol

C7_HoldSourceOnce ==
  \A r \in RunIds :
    LET R == runners[r]
        src == {k \in DOMAIN R.log : IsSource(R.log[k])}
        meas == {k \in DOMAIN R.log : R.log[k].at = "loop"}
    IN  (R.pc /= "absent" /\ R.cfg.mode \in HoldModes) =>
          /\ Cardinality(src) <= 1
          /\ \A k \in src :
               /\ R.log[k].at = "setup"
               /\ R.log[k].val = R.cfg.start
               /\ \A m \in meas : k < m
          /\ meas /= {} => Cardinality(src) = 1
          /\ \A n \in DOMAIN R.csv : R.csv[n].set_value = R.cfg.start

\* A hold at a start value other than 0 that recorded two rows.
C7_Witness ==
  \E r \in RunIds :
    /\ runners[r].cfg.mode \in HoldModes
    /\ runners[r].cfg.start /= 0
    /\ Len(runners[r].csv) = 2
    /\ runners[r].pc = "done"

\* ---- C8 ----------------------------------------------------------------
\* The run got to its shutdown: the finally clause of run() issued something.
ReachedShutdown(R) ==
  \E k \in DOMAIN R.log : R.log[k].at \in {"finally", "shutdown_safe", "close"}

\* C8: a run whose measurement loop ended without error reports
\* finished_ok, whatever fails in the shutdown commands (the return to 0 V,
\* the output off, the close).
C8_ShutdownSwallowed ==
  \A r \in RunIds :
    LET R == runners[r]
    IN  (R.finished /= <<>> /\ ReachedShutdown(R) /\ ~R.bodyErr) =>
          R.finished = <<"finished_ok">>

\* ---- C9 ----------------------------------------------------------------
IsMeasurement(e) == e.at = "loop" /\ e.cmd = "READ?"

\* C9: every measurement of a run produces exactly one CSV row, written and
\* flushed before its point_acquired is emitted; the points emitted are a
\* prefix of the CSV rows, and the CSV holds at most one row more.
C9_CsvBeforeEmit ==
  \A r \in RunIds :
    LET R == runners[r]
        reads == Count(R.log, IsMeasurement)
    IN  R.pc /= "absent" =>
          /\ Len(R.emitted) <= Len(R.csv)
          /\ Len(R.csv) <= Len(R.emitted) + 1
          /\ \A k \in DOMAIN R.emitted : R.emitted[k] = R.csv[k]
          /\ Len(R.emitted) <= R.flushed
          /\ Len(R.csv) <= reads
          /\ reads <= Len(R.csv) + 1
          /\ reads = Len(R.csv) + 1 => (R.pc = "write" \/ R.bodyErr)

\* The second row of a run is written and flushed, and not emitted yet.
C9_Witness ==
  \E r \in RunIds :
    /\ runners[r].pc = "emit"
    /\ Len(runners[r].csv) = 2
    /\ Len(runners[r].emitted) = 1
    /\ runners[r].flushed = 2

\* ======================================= the 6487 source range, in volts
\* The runs above stay within a few microvolts of 0.  The range rule of
\* runner.py:53-61 turns at 50 V, so it is taken here on its own, with the
\* sweep that follows it, on voltages written exactly as whole volts plus a
\* part in units of 1e-12 V (the part is far below 1 V).
Q(volts, pico) == [v |-> volts, p |-> pico]
QAdd(a, b) == Q(a.v + b.v, a.p + b.p)
QNeg(a) == Q(-a.v, -a.p)
QLe(a, b) == a.v < b.v \/ (a.v = b.v /\ a.p <= b.p)
QAbs(a) == IF QLe(Q(0, 0), a) THEN a ELSE QNeg(a)
QMax(a, b) == IF QLe(b, a) THEN a ELSE b

\* A largest magnitude that forgets the stop value of a sweep.
max_v_start(cfg) == QAbs(cfg.start)

\* runner.py:57-60
max_v(cfg) ==
  IF cfg.mode \in {"HOLD_V"}
    THEN QAbs(cfg.start)
    ELSE QMax(QAbs(cfg.start), QAbs(cfg.stop))

\* runner.py:54-61, the range in volts
v_range_q(cfg) ==
  IF cfg.source_range_v > 0
    THEN cfg.source_range_v
    ELSE IF QLe(max_v(cfg), Q(50, 0)) THEN 50 ELSE 500

\* runner.py:103-104
QSignedStep(cfg) ==
  IF QLe(cfg.start, cfg.stop) THEN cfg.step ELSE QNeg(QAbs(cfg.step))
QLoopCond(v, step, cfg) ==
  IF ~QLe(step, Q(0, 0))
    THEN QLe(v, QAdd(cfg.stop, Q(0, Tol)))
    ELSE QLe(QAdd(cfg.stop, Q(0, -Tol)), v)

\* What the user can ask of the 6487: its two modes, the items of
\* range_combo (0 is Auto), start and stop around the turning points of the
\* rule, and steps that keep the sweep to a point or two.
RangeModes == EnabledModes("6487")
RangeItems == {0, 50, 500}
RangeVolts == {Q(x, 0) : x \in {-500, -51, 0, 50, 51, 500, 501}}
RangeSteps == {Q(0, Tol), Q(0, Grid), Q(1, 0), Q(50, 0), Q(450, 0), Q(1000000, 0)}
RangeConfigs ==
  {c \in [mode : {"IV_SWEEP"}, start : RangeVolts, stop : RangeVolts,
          step : RangeSteps, source_range_v : RangeItems] :
     c.start = c.stop \/ QLe(QAbs(QAdd(c.stop, QNeg(c.start))), c.step)}
  \cup
  {[mode |-> m, start |-> a, stop |-> Q(0, 0), step |-> Q(0, Grid),
    source_range_v |-> g] :
     m \in RangeModes \ {"IV_SWEEP"}, a \in RangeVolts, g \in RangeItems}

runVars == <<runners, sigq, uiVars>>

RangeInit ==
  /\ WindowInit
  /\ inst_combo = "6487"
  /\ parse = NoCalc
  /\ voltages = NoCalc
  /\ accum = NoCalc
  /\ syst_err = NoCalc
  /\ script = NoCalc
  /\ \E cfg \in RangeConfigs :
       /\ mode_combo = cfg.mode
       /\ rng = [pc |-> "configure", cfg |-> cfg, v_range |-> 0,
                 v |-> Q(0, 0), step |-> Q(0, 0), sourced |-> <<>>]

\* runner.py:53-68: the range is chosen and configured.
rg_configure ==
  /\ rng.pc = "configure"
  /\ rng' = [rng EXCEPT !.pc = "body", !.v_range = v_range_q(rng.cfg)]
  /\ UNCHANGED <<runVars, parse, voltages, accum, syst_err, script>>

\* runner.py:102-103 (sweep entry), 135 (the hold's one source value).
rg_body ==
  /\ rng.pc = "body"
  /\ rng' = IF rng.cfg.mode = "HOLD_V"
              THEN [rng EXCEPT !.pc = "done", !.sourced = <<rng.cfg.start>>]
              ELSE [rng EXCEPT !.pc = "loop", !.v = rng.cfg.start,
                               !.step = QSignedStep(rng.cfg)]
  /\ UNCHANGED <<runVars, parse, voltages, accum, syst_err, script>>

\* runner.py:104-111: one turn of the sweep loop, never stopped.
rg_loop ==
  /\ rng.pc = "loop"
  /\ rng' = IF QLoopCond(rng.v, rng.step, rng.cfg)
              THEN [rng EXCEPT !.sourced = Append(@, rng.v),
                               !.v = QAdd(rng.v, rng.step)]
              ELSE [rng EXCEPT !.pc = "done"]
  /\ UNCHANGED <<runVars, parse, voltages, accum, syst_err, script>>

RangeNext == rg_configure \/ rg_body \/ rg_loop
RangeSpec == RangeInit /\ [][RangeNext]_vars

\* ---- C11 ---------------------------------------------------------------
\* The range follows the rule: the item chosen when it is not Auto; in Auto
\* 50 when |start|, and |stop| too in a sweep, are at most 50 V, else 500.
RangeRule ==
  LET c == rng.cfg
      small(x) == QLe(QAbs(x), Q(50, 0))
      allSmall == small(c.start) /\ (c.mode /= "HOLD_V" => small(c.stop))
  IN  /\ c.source_range_v > 0 => rng.v_range = c.source_range_v
      /\ c.source_range_v = 0 => rng.v_range = IF allSmall THEN 50 ELSE 500
\* In Auto, when no more than 500 V is asked for, no voltage sourced is
\* larger than the range by more than tol.
RangeCovers(tol) ==
  LET c == rng.cfg
  IN  (c.source_range_v = 0 /\ QLe(QAbs(c.start), Q(500, 0))
         /\ QLe(QAbs(c.stop), Q(500, 0))) =>
        \A k \in DOMAIN rng.sourced :
          QLe(QAbs(rng.sourced[k]), Q(rng.v_range, tol))

ComplianceValues == {0, MinCompliance6487 - Tol, DefaultCompliance}
Resources == {PreferredResource(i) : i \in Instruments} \cup {"ASRL1::INSTR"}

\* The user types into comp_edit.
edit_compliance(x) ==
  /\ x /= form.comp_edit
  /\ form' = [form EXCEPT !.comp_edit = x]
  /\ UNCHANGED <<calcVars, runners, sigq, runner, nruns, rows, table, xy_data,
                 status, run_btn, stop_btn, inst_combo, mode_combo,
                 mode_enabled, last_call>>

\* The user picks an entry of resource_combo.
pick_resource(x) ==
  /\ x /= form.resource
  /\ form' = [form EXCEPT !.resource = x]
  /\ UNCHANGED <<calcVars, runners, sigq, runner, nruns, rows, table, xy_data,
                 status, run_btn, stop_btn, inst_combo, mode_combo,
                 mode_enabled, last_call>>

\* MainWindow.__init__ ends with the first entries selected:
\* on_instrument_changed("2450"), on_mode_changed("IV_SWEEP").
UiInit ==
  /\ WindowInit
  /\ inst_combo = "2450"
  /\ mode_combo = "IV_SWEEP"
  /\ rng = NoCalc
  /\ parse = NoCalc
  /\ voltages = NoCalc
  /\ accum = NoCalc
  /\ syst_err = NoCalc
  /\ script = NoCalc

UiNext ==
  \/ \E inst \in Instruments : on_instrument_changed(inst)
  \/ \E mode \in AllModes : on_mode_changed(mode)
  \/ \E x \in ComplianceValues : edit_compliance(x)
  \/ \E x \in Resources : pick_resource(x)

SpecUI == UiInit /\ [][UiNext]_vars

\* ---- C12 ---------------------------------------------------------------
Unsupported6487 == {"VI_SWEEP", "HOLD_I"}

\* C12: whatever instruments and enabled modes the user picks, the 6487 is
\* never left with VI_SWEEP or HOLD_I selected; picking the 6487 while one
\* of them is selected selects IV_SWEEP, and picking the 2450 enables all
\* four modes again.
C12_No6487UnsupportedMode ==
  [][ /\ ~(inst_combo' = "6487" /\ mode_combo' \in Unsupported6487)
      /\ mode_combo' \in mode_enabled'
      /\ (inst_combo /= "6487" /\ inst_combo' = "6487"
            /\ mode_combo \in Unsupported6487) => mode_combo' = "IV_SWEEP"
      /\ (inst_combo = "6487" /\ inst_combo' = "2450") =>
           mode_enabled' = AllModes ]_vars

\* The 6487 was picked while HOLD_I was selected, and IV_SWEEP is selected.
C12_Witness ==
  /\ inst_combo = "6487"
  /\ form.was = "HOLD_I"
  /\ mode_combo = "IV_SWEEP"
  /\ mode_enabled = AllModes \ Unsupported6487

\* ---- C13 ---------------------------------------------------------------
\* The start-up of the 6487 as its wrapper documents it (keithley6487.py:6-16).
Startup6487 ==
  <<"*RST", "*CLS", "SYST:ZCH OFF", "SOUR:VOLT:RANG", "SOUR:VOLT:ILIM",
    "SOUR:VOLT", "SOUR:VOLT:STAT ON", "READ?">>
IsStartup(e) ==
  /\ e.at \in {"reset", "configure"}
  /\ \E k \in DOMAIN Startup6487 : e.cmd = Startup6487[k]
IsVoltage(e) == e.cmd = "SOUR:VOLT"

\* C13: a run on the 6487 issues its start-up commands in the documented
\* order: *RST, *CLS, zero check off, source range, current limit, source
\* level 0 V, output on, a first READ?; the output goes on only after the
\* range, the limit and the 0 V level, and no voltage other than 0 is
\* sourced before the output-on command.
C13_StartupOrder6487 ==
  \A r \in RunIds :
    LET R == runners[r]
        S == SelectSeq(R.log, IsStartup)
        on == {k \in DOMAIN R.log : IsOutputOn(R.log[k])}
        Before(k, c) == \E j \in 1..(k - 1) : R.log[j].cmd = c
    IN  (R.pc /= "absent" /\ R.cfg.instrument = "6487") =>
          /\ Len(S) <= Len(Startup6487)
          /\ \A k \in DOMAIN S : S[k].cmd = Startup6487[k]
          /\ \A k \in on :
               /\ Before(k, "SOUR:VOLT:RANG")
               /\ Before(k, "SOUR:VOLT:ILIM")
               /\ IsVoltage(R.log[k - 1]) /\ R.log[k - 1].val = 0
          /\ \A k \in DOMAIN R.log :
               (IsVoltage(R.log[k]) /\ R.log[k].val /= 0) =>
                 \E j \in on : j < k

\* A 6487 run that went through its start-up and sourced a voltage other
\* than 0.
C13_Witness ==
  \E r \in RunIds :
    /\ runners[r].cfg.instrument = "6487"
    /\ Len(SelectSeq(runners[r].log, IsStartup)) = Len(Startup6487)
    /\ \E k \in DOMAIN runners[r].log :
         IsVoltage(runners[r].log[k]) /\ runners[r].log[k].val /= 0

\* ================================= the scripts' parsers of a READ? reply
\* Test.py:39-59 (parse_reading), iv_sweep_live.py:28-39 and
\* current_vs_time.py:23-34 (parse_read).  A reply is a sequence of
\* characters; a number is written with the digits 0 and 1.
Chars == {"0", "1", "A", ",", " ", "x"}
Digits == {"0", "1"}
Replies == UNION {[1..n -> Chars] : n \in 0..MaxReply}

\* str.strip()
RECURSIVE lstrip(_)
lstrip(s) == IF s /= <<>> /\ Head(s) = " " THEN lstrip(Tail(s)) ELSE s
RECURSIVE rstrip(_)
rstrip(s) ==
  IF s /= <<>> /\ s[Len(s)] = " " THEN rstrip(SubSeq(s, 1, Len(s) - 1)) ELSE s
strip(s) == rstrip(lstrip(s))

\* str.split(","): the fields between the commas, at least one.
RECURSIVE split(_)
split(s) ==
  LET commas == {k \in DOMAIN s : s[k] = ","}
  IN  IF commas = {}
        THEN <<s>>
        ELSE LET k == CHOOSE c \in commas : \A d \in commas : c <= d
             IN  <<SubSeq(s, 1, k - 1)>> \o split(SubSeq(s, k + 1, Len(s)))

\* A replace that leaves the unit letter in place.
replace_nothing(s) == s

\* str.replace("A", "")
replace_A(s) == SelectSeq(s, LAMBDA c : c /= "A")

\* float(): blanks around the digits are dropped; anything else but digits
\* raises ValueError.
RECURSIVE Decimal(_)
Decimal(s) ==
  IF s = <<>> THEN 0
  ELSE 10 * Decimal(SubSeq(s, 1, Len(s) - 1))
         + (IF s[Len(s)] = "1" THEN 1 ELSE 0)
float(s) ==
  LET t == strip(s)
  IN  IF t /= <<>> /\ \A k \in DOMAIN t : t[k] \in Digits
        THEN [ok |-> TRUE, val |-> Decimal(t)]
        ELSE [ok |-> FALSE, val |-> 0]

\* What a parser gives: a ValueError, or current, status and fields; the
\* status is a number, None (parse_reading) or nan (parse_read).
ValueError == [exc |-> TRUE, curr |-> 0, stat |-> <<"None", 0>>, parts |-> <<>>]
Returned(curr, stat, parts) ==
  [exc |-> FALSE, curr |-> curr, stat |-> stat, parts |-> parts]

\* Test.py:39-59
parse_reading(raw) ==
  LET parts == split(strip(raw))
      curr == float(strip(replace_A(parts[1])))
      last == float(parts[Len(parts)])
  IN  IF Len(parts) < 2 THEN ValueError
      ELSE IF ~curr.ok THEN ValueError
      ELSE Returned(curr.val,
                    IF last.ok THEN <<"float", last.val>> ELSE <<"None", 0>>,
                    parts)

\* iv_sweep_live.py:28-39, current_vs_time.py:23-34
parse_read(reading) ==
  LET parts == split(strip(reading))
      curr == float(replace_A(parts[1]))
      last == float(parts[Len(parts)])
  IN  IF ~curr.ok THEN ValueError
      ELSE IF Len(parts) >= 2
        THEN IF last.ok THEN Returned(curr.val, <<"float", last.val>>, parts)
                        ELSE ValueError
        ELSE Returned(curr.val, <<"nan", 0>>, parts)

ParseInit ==
  /\ WindowInit
  /\ inst_combo = "6487"
  /\ mode_combo = "IV_SWEEP"
  /\ rng = NoCalc
  /\ voltages = NoCalc
  /\ accum = NoCalc
  /\ syst_err = NoCalc
  /\ script = NoCalc
  /\ \E raw \in Replies :
       parse = [raw |-> raw, reading |-> <<>>, read |-> <<>>]

\* Test.py:94
ps_parse_reading ==
  /\ parse.reading = <<>>
  /\ parse' = [parse EXCEPT !.reading = <<parse_reading(parse.raw)>>]
  /\ UNCHANGED <<runVars, rng, voltages, accum, syst_err, script>>

\* iv_sweep_live.py:104, current_vs_time.py:105
ps_parse_read ==
  /\ parse.read = <<>>
  /\ parse' = [parse EXCEPT !.read = <<parse_read(parse.raw)>>]
  /\ UNCHANGED <<runVars, rng, voltages, accum, syst_err, script>>

ParseNext == ps_parse_reading \/ ps_parse_read
ParseSpec == ParseInit /\ [][ParseNext]_vars

\* ---- C14 ---------------------------------------------------------------
\* The fields of the reply held, and the numbers its first field (the
\* letter A taken out) and its last field stand for.
Fields == split(strip(parse.raw))
FirstNumber == float(SelectSeq(Fields[1], LAMBDA c : c /= "A"))
LastNumber == float(Fields[Len(Fields)])
Both == parse.reading /= <<>> /\ parse.read /= <<>>
\* What is returned is the current, the status and the fields.
AsDocumented(res) ==
  ~res.exc => /\ FirstNumber.ok /\ res.curr = FirstNumber.val
              /\ LastNumber.ok /\ res.stat = <<"float", LastNumber.val>>
              /\ res.parts = Fields

\* C14, as stated: on every reply of two fields or more parse_reading and
\* parse_read give the same result: the current is the first field without
\* the letter A, the status the last field, with the list of the fields; on
\* a reply of fewer than two fields parse_reading raises ValueError.
C14_ParsersAgree ==
  /\ (Both /\ Len(Fields) >= 2) =>
       /\ parse.reading = parse.read
       /\ AsDocumented(parse.reading[1])
  /\ (parse.reading /= <<>> /\ Len(Fields) < 2) => parse.reading[1] = ValueError

\* C14, amended: on every reply of two fields or more whose last field is a
\* number parse_reading and parse_read give the same result (the current,
\* the status and the fields as above, or ValueError from both when the
\* first field without the letter A is no number); when the last field is
\* no number parse_reading returns the status None where parse_read raises
\* ValueError; on fewer than two fields parse_reading raises ValueError.
C14_ParsersAgreeOnNumbers ==
  /\ (Both /\ Len(Fields) >= 2 /\ LastNumber.ok) =>
       /\ parse.reading = parse.read
       /\ AsDocumented(parse.reading[1])
       /\ parse.reading[1].exc <=> ~FirstNumber.ok
  /\ (Both /\ Len(Fields) >= 2 /\ ~LastNumber.ok) =>
       /\ parse.read[1] = ValueError
       /\ FirstNumber.ok =>
            parse.reading[1] = Returned(FirstNumber.val, <<"None", 0>>, Fields)
  /\ (parse.reading /= <<>> /\ Len(Fields) < 2) => parse.reading[1] = ValueError

\* Both parsers were given "1A,0" and returned.
C14_Witness ==
  /\ parse.raw = <<"1", "A", ",", "0">>
  /\ Both
  /\ ~parse.reading[1].exc
  /\ ~parse.read[1].exc

\* ---- C15 ---------------------------------------------------------------
FinishSignals == {"finished_ok", "finished_err"}

\* C15: a run emits one finish signal, finished_ok or finished_err, when it
\* ends and none before; it emits no point_acquired after it; the signal is
\* finished_err exactly when an exception escaped the run, so that a run
\* ended by a stop request alone reports finished_ok.
C15_OneFinishSignal ==
  [][ /\ \A r \in RunIds :
           LET R == runners[r]
               Rn == runners'[r]
           IN  /\ Len(Rn.finished) <= 1
               /\ Rn.finished /= <<>> <=> Rn.pc = "done"
               /\ Rn.finished /= <<>> =>
                    /\ Rn.finished[1] \in FinishSignals
                    /\ Rn.finished[1] = "finished_err" <=> Rn.exc
                    /\ (Rn.stopAt /= <<>> /\ Rn.faults = 0 /\ ~Rn.exc) =>
                         Rn.finished = <<"finished_ok">>
               /\ (R.finished /= <<>> /\ Rn.pc /= "absent") =>
                    /\ Rn.emitted = R.emitted
                    /\ Rn.finished = R.finished
      /\ \A i \in DOMAIN sigq' :
           sigq'[i].sig \in FinishSignals =>
             \A j \in DOMAIN sigq' : (j > i) => sigq'[j].from /= sigq'[i].from
    ]_vars

\* A run that recorded a point, was stopped and reported finished_ok.
C15_Witness ==
  \E r \in RunIds :
    /\ runners[r].stopAt /= <<>>
    /\ Len(runners[r].emitted) >= 1
    /\ runners[r].finished = <<"finished_ok">>

\* ---- C16 ---------------------------------------------------------------
IsClose(e) == e.at = "close" /\ e.cmd = "close"

\* C16: a run that entered its measurement block (the inner try of run())
\* has attempted inst.close(), once, by the time it emits its finish signal,
\* whatever was raised in the block, by the return to 0 V or by
\* shutdown_safe(); after close() the wrapper's inst is None.
C16_ClosedBeforeFinish ==
  \A r \in RunIds :
    LET R == runners[r]
    IN  (R.entered /\ R.pc \in {"finish", "done"}) =>
          /\ Count(R.log, IsClose) = 1
          /\ R.inst = "None"

\* A run whose shutdown_safe() raised, with the handle closed at the end.
C16_Witness ==
  \E r \in RunIds :
    /\ runners[r].entered
    /\ "fin_off" \in runners[r].shutFaults
    /\ runners[r].pc = "done"
    /\ runners[r].inst = "None"

\* ---- C17 ---------------------------------------------------------------
\* C17: a sweep with step > 0 and |stop - start| a whole multiple of step,
\* never asked to stop and ended without an exception, recorded
\* |stop - start| / step + 1 points, the last of them at stop; with
\* start = stop it recorded one point.
C17_InclusiveSweep ==
  \A r \in RunIds :
    LET R == runners[r]
        c == R.cfg
        span == Abs(c.stop - c.start)
    IN  (R.pc = "done" /\ c.mode \in SweepModes /\ c.step > 0
           /\ span % c.step = 0 /\ R.stopAt = <<>> /\ ~R.exc) =>
          /\ Len(R.csv) = span \div c.step + 1
          /\ R.csv[Len(R.csv)].set_value = c.stop
          /\ c.start = c.stop => Len(R.csv) = 1

\* ---- the sweep tables of the scripts -----------------------------------
\* V_START, V_STOP and V_STEP are module constants of the scripts.  Here a
\* volt is 840 units, so that every quotient the two constructions form on
\* the inputs below is a whole number of units.
MaxSpan == 2
ScriptVolts == {840 * x : x \in (-MaxSpan)..MaxSpan}
ScriptSteps == {-1680, -840, -420, 420, 840, 1680}

\* floor(a / b) and ceil(a / b), b # 0
FloorDiv(a, b) == IF b > 0 THEN a \div b ELSE (-a) \div (-b)
CeilDiv(a, b) == -FloorDiv(-a, b)

\* Python's round(a / b): to the nearest integer, a tie to the even one.
round(a, b) ==
  LET q == FloorDiv(a, b)
      r == Abs(a - q * b)
  IN  IF 2 * r < Abs(b) THEN q
      ELSE IF 2 * r > Abs(b) THEN q + 1
      ELSE IF q % 2 = 0 THEN q ELSE q + 1

\* What a construction gives: the array, or the exception it raised.
Array(points) == [exc |-> FALSE, points |-> points]
Raised == [exc |-> TRUE, points |-> <<>>]

npts_open(V_START, V_STOP, V_STEP) == round(V_STOP - V_START, V_STEP)

\* iv_sweep_live.py:92, combined_plots_2450.py:102
npts(V_START, V_STOP, V_STEP) == round(V_STOP - V_START, V_STEP) + 1

\* numpy.linspace(start, stop, num): num evenly spaced samples over
\* [start, stop], both ends included; a negative num is a ValueError.
linspace(first, last, num) ==
  IF num < 0 THEN Raised
  ELSE IF num = 1 THEN Array(<<first>>)
  ELSE Array([i \in 1..num |->
                first + ((i - 1) * (last - first)) \div (num - 1)])

\* numpy.arange(start, stop, step): start + i * step for
\* 0 <= i < ceil((stop - start) / step).
arange(first, limit, by) ==
  LET n == CeilDiv(limit - first, by)
  IN  Array([i \in 1..Max(n, 0) |-> first + (i - 1) * by])

TableInit ==
  /\ WindowInit
  /\ inst_combo = "6487"
  /\ mode_combo = "IV_SWEEP"
  /\ rng = NoCalc
  /\ parse = NoCalc
  /\ accum = NoCalc
  /\ syst_err = NoCalc
  /\ script = NoCalc
  /\ \E a \in ScriptVolts, b \in ScriptVolts, s \in ScriptSteps :
       voltages = [V_START |-> a, V_STOP |-> b, V_STEP |-> s,
                   linspace |-> <<>>, arange |-> <<>>]

\* iv_sweep_live.py:92-93, combined_plots_2450.py:102-103
tb_linspace ==
  /\ voltages.linspace = <<>>
  /\ voltages' =
       [voltages EXCEPT !.linspace =
          <<linspace(voltages.V_START, voltages.V_STOP,
                     npts(voltages.V_START, voltages.V_STOP,
                          voltages.V_STEP))>>]
  /\ UNCHANGED <<runVars, rng, parse, accum, syst_err, script>>

\* voltage_sweep.py:51
tb_arange ==
  /\ voltages.arange = <<>>
  /\ voltages' =
       [voltages EXCEPT !.arange =
          <<arange(voltages.V_START,
                   voltages.V_STOP + voltages.V_STEP \div 2,
                   voltages.V_STEP)>>]
  /\ UNCHANGED <<runVars, rng, parse, accum, syst_err, script>>

TableNext == tb_linspace \/ tb_arange
TableSpec == TableInit /\ [][TableNext]_vars

\* ---- C18 ---------------------------------------------------------------
\* V_STOP - V_START is a whole multiple of V_STEP, of the same sign or zero.
WholeSteps ==
  /\ (voltages.V_STOP - voltages.V_START) % Abs(voltages.V_STEP) = 0
  /\ (voltages.V_STOP - voltages.V_START) * voltages.V_STEP >= 0

\* The table has (V_STOP - V_START) / V_STEP + 1 points, from V_START to
\* V_STOP, V_STEP apart.
IsSweepTable(t) ==
  /\ ~t.exc
  /\ Len(t.points) =
       Abs(voltages.V_STOP - voltages.V_START) \div Abs(voltages.V_STEP) + 1
  /\ t.points[1] = voltages.V_START
  /\ t.points[Len(t.points)] = voltages.V_STOP
  /\ \A i \in 1..(Len(t.points) - 1) :
       t.points[i + 1] - t.points[i] = voltages.V_STEP

Tol52 == 4504
StartExps == 10..16
StepUnits == {4504, 9007, 18014, 36029}
ulp(k) == 2 ^ k

\* The double nearest to start + x, a tie going to the even one.
fl(x, k) ==
  LET q == x \div ulp(k)
      r == x % ulp(k)
  IN  IF 2 * r < ulp(k) THEN q * ulp(k)
      ELSE IF 2 * r > ulp(k) THEN (q + 1) * ulp(k)
      ELSE IF q % 2 = 0 THEN q * ulp(k) ELSE (q + 1) * ulp(k)

\* runner.py:92-94 with start = stop = 2^k V
AccInit ==
  /\ WindowInit
  /\ inst_combo = "2450"
  /\ mode_combo = "IV_SWEEP"
  /\ rng = NoCalc
  /\ parse = NoCalc
  /\ voltages = NoCalc
  /\ syst_err = NoCalc
  /\ script = NoCalc
  /\ \E k \in StartExps, s \in StepUnits :
       accum = [k |-> k, step |-> s, stop |-> 0, v |-> 0, pc |-> "while",
                points |-> 0]

\* runner.py:94: while (v <= stop + 1e-12)
ac_while ==
  /\ accum.pc = "while"
  /\ accum' = [accum EXCEPT !.pc =
                 IF accum.v <= fl(accum.stop + Tol52, accum.k)
                 THEN "point" ELSE "done"]
  /\ UNCHANGED <<runVars, rng, parse, voltages, syst_err, script>>

\* runner.py:95-100: one point, then v += step.  The count of points stops
\* at MaxPoints + 1.
ac_point ==
  /\ accum.pc = "point"
  /\ accum' = [accum EXCEPT !.pc = "while",
                            !.points = IF @ > MaxPoints THEN @ ELSE @ + 1,
                            !.v = fl(@ + accum.step, accum.k)]
  /\ UNCHANGED <<runVars, rng, parse, voltages, syst_err, script>>

AccNext == ac_while \/ ac_point
AccSpec == AccInit /\ [][AccNext]_vars /\ WF_vars(AccNext)

\* ---- C19 ---------------------------------------------------------------
\* C19: a sweep with step > 0 that nobody stops leaves its loop after
\* finitely many points.
C19_SweepTerminates == <>(accum.pc = "done")

\* ---- C20 ---------------------------------------------------------------
\* stop_run has been called on a Runner that the window still holds.
StopRequested == runner /= 0 /\ runners[runner].stopFlag

\* The window is idle: no Runner, Run enabled, Stop disabled.
Idle == runner = 0 /\ run_btn /\ ~stop_btn

\* C20: once stop_run has been called during a run, the window eventually
\* is idle again; it lets go of its Runner only on finished_ok or
\* finished_err, and is idle from that step on, so that start_run is no
\* longer ignored.
C20_StopLeadsToIdle ==
  /\ StopRequested ~> Idle
  /\ [][ (runner /= 0 /\ runner' = 0) =>
           /\ sigq /= <<>>
           /\ Head(sigq).sig \in FinishSignals
           /\ Idle'
           /\ ~RunInProgress' ]_vars

\* A run that was stopped while it was looping has ended with finished_ok,
\* and the window is idle.
C20_Witness ==
  /\ Idle
  /\ status = "Saved"
  /\ nruns = 1
  /\ runners[1].pc = "absent" /\ runners[1].stopFlag
  /\ rows /= <<>>

\* ---- C21 ---------------------------------------------------------------
\* The point_acquired signals still queued for the UI thread, and their rows.
QueuedPoints == SelectSeq(sigq, LAMBDA m : m.sig = "point_acquired")
QueuedRows == [i \in 1..Len(QueuedPoints) |-> QueuedPoints[i].row]

\* C21 as stated: while the window holds a Runner, the rows list equals the
\* sequence of points that Runner has emitted so far, and the table has as
\* many rows.
C21_RowsEqualEmitted ==
  runner /= 0 =>
    /\ rows = runners[runner].emitted
    /\ Len(table) = Len(rows)

\* C21, amended: while the window holds a Runner, the rows list followed by
\* the points still queued for delivery is the sequence of points that
\* Runner has emitted so far; every queued signal comes from that Runner,
\* so no point of an earlier run is shown or pending; the table holds the
\* rows of the list, in order; and while there is no Runner the list and
\* the table do not change.
C21_RowsAreDeliveredPoints ==
  /\ [](runner /= 0 =>
          /\ rows \o QueuedRows = runners[runner].emitted
          /\ \A i \in 1..Len(sigq) : sigq[i].from = runner
          /\ table = rows)
  /\ [][runner' = 0 => UNCHANGED <<rows, table>>]_vars

\* A second run has its first point on show and its second one queued,
\* after a first run that had shown points of its own.
C21_Witness ==
  /\ runner = 2
  /\ Len(rows) = 1
  /\ Len(QueuedRows) = 1
  /\ Len(runners[2].emitted) = 2

\* ---- SYST:ERR? replies and their two readers ---------------------------
\* A reply is a sequence of characters; "N" stands for the quoted text
\* "No error".
ErrChars == {"0", "1", "+", "-", ",", "N", " "}
ErrForms == UNION {[1..n -> ErrChars] : n \in 0..MaxReply}

\* Test.py:66: the test that ends drain_err's loop, on the reply q() has
\* stripped (Test.py:33-34).
drain_err_breaks(raw) ==
  LET e == strip(raw)
  IN  StartsWith(e, <<"0", ",", "N">>) \/ StartsWith(e, <<"+", "0">>)

ErrInit ==
  /\ WindowInit
  /\ inst_combo = "6487"
  /\ mode_combo = "IV_SWEEP"
  /\ rng = NoCalc
  /\ parse = NoCalc
  /\ voltages = NoCalc
  /\ accum = NoCalc
  /\ script = NoCalc
  /\ \E raw \in ErrForms :
       syst_err = [raw |-> raw, no_error |-> <<>>, raised |-> <<>>]

\* Test.py:61-68, one reply
er_drain_err ==
  /\ syst_err.no_error = <<>>
  /\ syst_err' = [syst_err EXCEPT !.no_error = <<drain_err_breaks(syst_err.raw)>>]
  /\ UNCHANGED <<runVars, rng, parse, voltages, accum, script>>

\* keithley6487.py:40-49: get_error strips the reply, check_error tests it
er_check_error ==
  /\ syst_err.raised = <<>>
  /\ syst_err' =
       [syst_err EXCEPT !.raised = <<check_error_raises(strip(syst_err.raw))>>]
  /\ UNCHANGED <<runVars, rng, parse, voltages, accum, script>>

ErrNext == er_drain_err \/ er_check_error
ErrSpec == ErrInit /\ [][ErrNext]_vars

\* ---- C22 ---------------------------------------------------------------
\* C22: a reply that drain_err takes for "no error" does not make
\* check_error raise.
C22_NoErrorNeverRaises ==
  (syst_err.no_error /= <<>> /\ syst_err.raised /= <<>>
     /\ syst_err.no_error[1]) => ~syst_err.raised[1]

\* ---- the standalone scripts --------------------------------------------
Scripts ==
  {"Test.py", "iv_sweep_live.py", "voltage_sweep.py", "current_vs_time.py",
   "combined_plots_2450.py"}

\* The instrument calls of a script's measurement block (the try body), in
\* order, with one pass of its measuring loop.
Body(name) ==
  CASE name = "Test.py" ->
         <<"*RST", "*CLS", "SYST:ZCH OFF", "SOUR:VOLT:RANG", "SOUR:VOLT:ILIM",
           "SENS:FUNC 'CURR'", "SENS:CURR:RANG:AUTO ON", "SOUR:VOLT 0",
           "SOUR:VOLT:STAT ON", "SOUR:VOLT?", "SYST:ERR?", "READ? (throwaway)",
           "SOUR:VOLT", "READ?">>
    [] name = "iv_sweep_live.py" ->
         <<"*RST", "*CLS", "SYST:ZCH OFF", "SOUR:VOLT:RANG", "SOUR:VOLT:ILIM",
           "SOUR:VOLT:ILIM?", "SENS:CURR:RANG:AUTO ON", "SOUR:VOLT 0",
           "SOUR:VOLT:STAT ON", "READ? (throwaway)", "SOUR:VOLT", "READ?">>
    [] name = "voltage_sweep.py" ->
         <<"*RST", "*CLS", "SYST:ZCH OFF", "SOUR:VOLT:RANG", "SOUR:VOLT:ILIM",
           "SOUR:VOLT 0", "SOUR:VOLT:STAT ON", "SOUR:VOLT", "READ?">>
    [] name = "current_vs_time.py" ->
         <<"*RST", "*CLS", "SYST:ZCH OFF", "SOUR:VOLT:RANG", "SOUR:VOLT:ILIM",
           "SOUR:VOLT:ILIM?", "SENS:CURR:RANG:AUTO ON", "SOUR:VOLT 0",
           "SOUR:VOLT:STAT ON", "SOUR:VOLT", "READ? (throwaway)", "READ?">>
    [] name = "combined_plots_2450.py" ->
         <<"*RST", "*CLS", ":ROUT:TERM FRON", ":SOUR:FUNC VOLT",
           ":SENS:FUNC CURR", ":SOUR:VOLT:RANG", ":SOUR:VOLT:ILIM",
           ":SOUR:VOLT:ILIM?", ":SENS:CURR:RANG:AUTO ON", ":SENS:CURR:NPLC",
           ":FORM:ELEM CURR", ":SOUR:VOLT 0", ":OUTP ON", "READ? (throwaway)",
           ":SOUR:VOLT", ":READ?">>

\* The calls of the block that stand in a try/except of their own: an
\* exception they raise does not leave the block.
Swallowed(name) ==
  CASE name \in {"iv_sweep_live.py", "current_vs_time.py"} ->
         {"SENS:CURR:RANG:AUTO ON", "READ? (throwaway)"}
    [] name = "combined_plots_2450.py" -> {"READ? (throwaway)"}
    [] name = "Test.py" -> {"SOUR:VOLT?"}
    [] OTHER -> {}

\* The return-to-0 and output-off commands of the shutdown block.
ShutdownCmds(name) ==
  IF name = "combined_plots_2450.py"
    THEN [zero |-> ":SOUR:VOLT 0", off |-> ":OUTP OFF"]
    ELSE [zero |-> "SOUR:VOLT 0", off |-> "SOUR:VOLT:STAT OFF"]

ScriptInit ==
  /\ WindowInit
  /\ inst_combo = "6487"
  /\ mode_combo = "IV_SWEEP"
  /\ rng = NoCalc
  /\ parse = NoCalc
  /\ voltages = NoCalc
  /\ accum = NoCalc
  /\ syst_err = NoCalc
  /\ \E name \in Scripts :
       script = [name |-> name, pc |-> "body", i |-> 1, exc |-> FALSE,
                 log |-> <<>>]

\* The try body: the next call returns, or raises; an exception that is not
\* swallowed on the spot leaves the block for the finally.
sc_body ==
  /\ script.pc = "body"
  /\ LET cmd == Body(script.name)[script.i]
         last == script.i = Len(Body(script.name))
     IN  \E ok \in BOOLEAN :
           script' =
             [script EXCEPT
                !.log = Append(@, [at |-> "body", cmd |-> cmd, ok |-> ok]),
                !.i = @ + 1,
                !.exc = ~ok /\ cmd \notin Swallowed(script.name),
                !.pc = IF (~ok /\ cmd \notin Swallowed(script.name)) \/ last
                         THEN "zero" ELSE "body"]
  /\ UNCHANGED <<runVars, rng, parse, voltages, accum, syst_err>>

\* finally, first try: inst.write("SOUR:VOLT 0"); an exception goes to the
\* except of that try, past the output-off.
sc_zero ==
  /\ script.pc = "zero"
  /\ \E ok \in BOOLEAN :
       script' =
         [script EXCEPT
            !.log = Append(@, [at |-> "finally",
                               cmd |-> ShutdownCmds(script.name).zero,
                               ok |-> ok]),
            !.pc = IF ok THEN "off" ELSE "close"]
  /\ UNCHANGED <<runVars, rng, parse, voltages, accum, syst_err>>

\* finally, first try: the output-off write after the sleep
sc_off ==
  /\ script.pc = "off"
  /\ \E ok \in BOOLEAN :
       script' =
         [script EXCEPT
            !.log = Append(@, [at |-> "finally",
                               cmd |-> ShutdownCmds(script.name).off,
                               ok |-> ok]),
            !.pc = "close"]
  /\ UNCHANGED <<runVars, rng, parse, voltages, accum, syst_err>>

\* finally, second try: inst.close()
sc_close ==
  /\ script.pc = "close"
  /\ \E ok \in BOOLEAN :
       script' =
         [script EXCEPT
            !.log = Append(@, [at |-> "finally", cmd |-> "close", ok |-> ok]),
            !.pc = "done"]
  /\ UNCHANGED <<runVars, rng, parse, voltages, accum, syst_err>>

ScriptNext == sc_body \/ sc_zero \/ sc_off \/ sc_close
ScriptSpec == ScriptInit /\ [][ScriptNext]_vars

\* ---- C23 ---------------------------------------------------------------
\* The positions of a command among the calls of the shutdown block.
ShutdownAt(cmd) ==
  {k \in DOMAIN script.log :
     script.log[k].at = "finally" /\ script.log[k].cmd = cmd}

\* C23: when a script has ended, by completion or by an exception, it has
\* attempted the output-off command and after it the close, and it issued
\* the return-to-0 command before the output-off.
C23_ScriptSafeShutdown ==
  script.pc = "done" =>
    \E off \in ShutdownAt(ShutdownCmds(script.name).off) :
      /\ \E c \in ShutdownAt("close") : off < c
      /\ \E z \in ShutdownAt(ShutdownCmds(script.name).zero) : z < off

====
